---- MODULE Spec2Model ----
(***************************************************************************)
(* Typed item store of the secretary skill: types (single inheritance,    *)
(* abstract flag, fields_schema), items (type, title, content, data,      *)
(* parent_id, status), the item_relations edge table and the items_fts    *)
(* search index, with schema-ensure of db.py and the commands of          *)
(* types_mod.py and items_mod.py acting on one SQLite store with foreign  *)
(* keys enabled.                                                          *)
(***************************************************************************)
EXTENDS Integers, Sequences, FiniteSets, TLC

VARIABLES types, items, item_relations, seq, last, steps,
          items_fts, legacy, fts5, calls

vars == <<types, items, item_relations, seq, last, steps, items_fts, legacy, fts5,
          calls>>

(* ---------------------------------------------------------------------- *)
(* Bounds                                                                  *)
(* ---------------------------------------------------------------------- *)
MaxItems == 2
MaxSteps == 4

(* ---------------------------------------------------------------------- *)
(* Values                                                                  *)
(* ---------------------------------------------------------------------- *)
\* SQL NULL / Python None in a text column, and in an integer column.
None == "None"
NoItem == 0

TypeNames == {"A", "B"}
ItemIds == 1..MaxItems

\* JSON values of the data object: null, a number, a list of numbers.
JNull == [kind |-> "null", v |-> <<>>]
JInt(n) == [kind |-> "int", v |-> <<n>>]
JList(s) == [kind |-> "list", v |-> s]
\* A JSON string with a character that is no digit.
JStr(s) == [kind |-> "str", v |-> s]

\* No command is between its reads and its write.
NoCalls == <<>>

\* The empty dict.
EmptyDict == [k \in {} |-> JNull]

\* Variant that replaces the dict instead of merging into it.
DictUpdate_replace(a, b) == b

\* dict(a); dict.update(b): keys of b override keys of a.
DictUpdate(a, b) ==
    [k \in (DOMAIN a) \cup (DOMAIN b) |-> IF k \in DOMAIN b THEN b[k] ELSE a[k]]

\* dict without the keys in ks (dict.pop for each).
DictWithout(a, ks) == [k \in (DOMAIN a) \ ks |-> a[k]]

\* d.get(k, default)
Get(d, k, default) == IF k \in DOMAIN d THEN d[k] ELSE default

SeqRange(s) == {s[i] : i \in DOMAIN s}

\* Text is a sequence of characters.  "o:" and "O:" stand for one letter
\* outside ASCII in its lower and upper case (o and O with diaeresis).
NoText == <<>>

\* The status column's default.
Active == "active"

(* ---------------------------------------------------------------------- *)
(* db.py: resolved fields                                                  *)
(* ---------------------------------------------------------------------- *)
RECURSIVE get_resolved_fields(_, _)
\* Variant that appends the own fields without dropping the parent's fields
\* of the same name.
get_resolved_fields_nofilter(T, type_name) ==
    IF type_name \notin DOMAIN T THEN <<>>
    ELSE IF T[type_name].parent_type # None
    THEN get_resolved_fields(T, T[type_name].parent_type) \o T[type_name].fields_schema
    ELSE T[type_name].fields_schema

get_resolved_fields(T, type_name) ==
    IF type_name \notin DOMAIN T THEN <<>>
    ELSE LET row == T[type_name]
             own_fields == row.fields_schema
         IN IF row.parent_type # None
            THEN LET parent_fields == get_resolved_fields(T, row.parent_type)
                     own_names == {own_fields[i].name : i \in DOMAIN own_fields}
                     merged == SelectSeq(parent_fields, LAMBDA f : f.name \notin own_names)
                 IN merged \o own_fields
            ELSE own_fields

\* The dict comprehension of get_ref_fields over the resolved field list.
RefFieldsOf(fields) ==
    LET refs == {i \in DOMAIN fields : Get(fields[i], "type", "") = "ref"}
        lastOf(n) == CHOOSE i \in refs : fields[i].name = n
                         /\ \A j \in refs : fields[j].name = n => j <= i
    IN [n \in {fields[i].name : i \in refs} |->
           [ref_type |-> Get(fields[lastOf(n)], "ref_type", ""),
            multiple |-> Get(fields[lastOf(n)], "multiple", FALSE)]]

\* name -> [ref_type, multiple] for the resolved fields of type "ref".
get_ref_fields(T, type_name) ==
    IF type_name = None THEN EmptyDict
    ELSE RefFieldsOf(get_resolved_fields(T, type_name))

\* get_type_descendants: the list it returns (the rows of the children query
\* taken in one order; the order does not change which names the list holds
\* nor how often).
RECURSIVE get_type_descendants(_, _)
RECURSIVE DescendantsOfAll(_, _)
\* Variant that collects the children of type_name only, not theirs.
get_type_descendants_children(T, type_name) ==
    LET children == {n \in DOMAIN T : T[n].parent_type = type_name}
    IN <<type_name>> \o (CHOOSE q \in [1..Cardinality(children) -> children] :
                             {q[k] : k \in DOMAIN q} = children)

get_type_descendants(T, type_name) ==
    <<type_name>> \o DescendantsOfAll(T, {n \in DOMAIN T : T[n].parent_type = type_name})

\* The loop "for child in children: result.extend(...)".
DescendantsOfAll(T, children) ==
    IF children = {} THEN <<>>
    ELSE LET child == CHOOSE n \in children : TRUE
         IN get_type_descendants(T, child) \o DescendantsOfAll(T, children \ {child})

(* ---------------------------------------------------------------------- *)
(* db.py: the search index and schema-ensure                               *)
(* ---------------------------------------------------------------------- *)
\* items_fts: whether FTS_SQL has created the table and its triggers, and the
\* (title, content, data) entry the index holds per rowid.
NoIndex == [exists |-> FALSE, rows |-> <<>>]

FtsEntry(row) == [title |-> row.title, content |-> row.content, data |-> row.data]

\* Trigger items_fts_ai.
items_fts_ai(F, id, new) ==
    IF F.exists
    THEN [F EXCEPT !.rows = [i \in (DOMAIN F.rows) \cup {id} |->
                                IF i = id THEN FtsEntry(new) ELSE F.rows[i]]]
    ELSE F

\* Trigger items_fts_ad.
items_fts_ad(F, id) ==
    IF F.exists
    THEN [F EXCEPT !.rows = [i \in (DOMAIN F.rows) \ {id} |-> F.rows[i]]]
    ELSE F

\* Trigger items_fts_au: the 'delete' of the old entry, then the insert of
\* the new one.
items_fts_au(F, id, new) == items_fts_ai(items_fts_ad(F, id), id, new)

\* The index after the triggers have fired for every row in ids, whose rows
\* are now I.
RECURSIVE FtsWriteAll(_, _, _)
FtsWriteAll(F, I, ids) ==
    IF ids = {} THEN F
    ELSE LET i == CHOOSE x \in ids : TRUE
         IN FtsWriteAll(items_fts_au(F, i, I[i]), I, ids \ {i})

\* Some row in ids has no entry in an existing index: the 'delete' the
\* triggers issue for it names content the index does not hold, which FTS5
\* documents as unpredictable (the statement may fail with "database disk
\* image is malformed").
Unindexed(F, ids) == F.exists /\ \E i \in ids : i \notin DOMAIN F.rows

\* A store without legacy tables.
NoLegacy == [present |-> FALSE, collections |-> <<>>, collection_items |-> <<>>]

Max(a, b) == IF a >= b THEN a ELSE b

RECURSIVE MaxOf(_)
MaxOf(ids) ==
    IF ids = {} THEN 0
    ELSE LET i == CHOOSE x \in ids : TRUE IN Max(i, MaxOf(ids \ {i}))

\* The interpreter's limit on the depth of recursion.
RecursionLimit == 4

\* The number of frames of get_type_descendants that are on the stack at the
\* deepest point of the call for type_name, counted up to fuel.
RECURSIVE DescendantsDepth(_, _, _)
DescendantsDepth(T, type_name, fuel) ==
    IF fuel = 0 THEN 0
    ELSE 1 + MaxOf({DescendantsDepth(T, child, fuel - 1) :
                       child \in {n \in DOMAIN T : T[n].parent_type = type_name}})

\* The exception get_type_descendants ends with: the call has no other end
\* than the return of every recursive call, so it raises when the recursion
\* goes deeper than the interpreter allows.
DescendantsExc(T, type_name) ==
    IF DescendantsDepth(T, type_name, RecursionLimit + 1) > RecursionLimit
    THEN "RecursionError" ELSE "none"

\* col_name.rstrip("s") if col_name.endswith("s") else col_name, for the
\* collection names of the legacy stores: "As", "Bss" and "C".
rstrip_s(col_name) ==
    CASE col_name = "As" -> "A" [] col_name = "Bss" -> "B" [] OTHER -> col_name

\* Variant that keeps the legacy tables and gives the legacy rows new ids.
MigrateCollections_keep(S) ==
    IF ~S.legacy.present THEN S
    ELSE LET CI == S.legacy.collection_items
             n == Cardinality(DOMAIN CI)
         IN [S EXCEPT
               !.items = [i \in (DOMAIN S.items) \cup ((S.seq + 1)..(S.seq + n)) |->
                            IF i \in DOMAIN S.items THEN S.items[i]
                            ELSE [type |-> None, title |-> CI[i - S.seq].title,
                                  content |-> CI[i - S.seq].content,
                                  data |-> CI[i - S.seq].data, parent_id |-> NoItem,
                                  status |-> CI[i - S.seq].status]],
               !.seq = S.seq + n]

\* _migrate, collections -> types and collection_items -> items: a type per
\* collection that has none yet, the legacy rows inserted under their ids
\* (INSERT OR IGNORE) with the type of their collection, the legacy tables
\* dropped.  S is the store as a record of its tables.
MigrateCollections(S) ==
    IF ~S.legacy.present THEN S
    ELSE LET C == S.legacy.collections
             CI == S.legacy.collection_items
             newTypes == {rstrip_s(C[c].name) : c \in DOMAIN C} \ DOMAIN S.types
             newIds == (DOMAIN CI) \ DOMAIN S.items
             I2 == [i \in (DOMAIN S.items) \cup newIds |->
                      IF i \in DOMAIN S.items THEN S.items[i]
                      ELSE [type |-> IF CI[i].collection_id \in DOMAIN C
                                     THEN rstrip_s(C[CI[i].collection_id].name) ELSE None,
                            title |-> CI[i].title, content |-> CI[i].content,
                            data |-> CI[i].data, parent_id |-> CI[i].parent_id,
                            status |-> CI[i].status]]
         IN [S EXCEPT
               !.types = [n \in (DOMAIN S.types) \cup newTypes |->
                            IF n \in DOMAIN S.types THEN S.types[n]
                            ELSE [parent_type |-> None, abstract |-> FALSE,
                                  fields_schema |->
                                      C[CHOOSE c \in DOMAIN C :
                                               rstrip_s(C[c].name) = n].fields_schema]],
               !.items = I2,
               !.items_fts = FtsWriteAll(S.items_fts, I2, newIds),
               !.seq = Max(S.seq, MaxOf(newIds)),
               !.legacy = NoLegacy]

\* _migrate, ref_collection -> ref_type in one fields_schema.
RenameRefCollection(fs) ==
    [i \in DOMAIN fs |->
        IF "ref_collection" \in DOMAIN fs[i] /\ "ref_type" \notin DOMAIN fs[i]
        THEN [k \in ((DOMAIN fs[i]) \ {"ref_collection"}) \cup {"ref_type"} |->
                 IF k = "ref_type" THEN rstrip_s(fs[i]["ref_collection"]) ELSE fs[i][k]]
        ELSE fs[i]]

\* _migrate, ref_collection -> ref_type over every type row.
MigrateRefType(S) ==
    [S EXCEPT !.types = [n \in DOMAIN S.types |->
                            [S.types[n] EXCEPT !.fields_schema = RenameRefCollection(@)]]]

\* The ids the ref-data migration reads from one data value.
MigrateIds(multiple, val) ==
    IF multiple /\ val.kind = "list" THEN SeqRange(val.v)
    ELSE IF ~multiple /\ val.kind = "int" THEN {val.v[1]}
    ELSE {}

\* _migrate, ref data -> item_relations.  It runs whenever item_relations is
\* empty, over the ref fields each type declares itself (ref_map).  The
\* results it can have: exc is "none" when it returns, else the store is as
\* before (nothing was committed).
MigrateRefData(S) ==
    IF S.item_relations # {} THEN {[exc |-> "none", store |-> S]}
    ELSE LET I == S.items
             ref_map(i) == IF I[i].type \in DOMAIN S.types
                           THEN RefFieldsOf(S.types[I[i].type].fields_schema)
                           ELSE EmptyDict
             moved(i) == (DOMAIN ref_map(i)) \cap (DOMAIN I[i].data)
             changed == {i \in DOMAIN I : moved(i) # {}}
             ids(i, f) == MigrateIds(ref_map(i)[f].multiple, I[i].data[f])
             raises == \E i \in changed : \E f \in moved(i) :
                          \* int(val) of a list; a foreign key that fails
                          \/ ~ref_map(i)[f].multiple /\ I[i].data[f].kind = "list"
                          \/ \E rid \in ids(i, f) : rid \notin DOMAIN I
             I2 == [i \in DOMAIN I |->
                      IF i \in changed
                      THEN [I[i] EXCEPT !.data = DictWithout(I[i].data, moved(i))]
                      ELSE I[i]]
             done == [S EXCEPT
                        !.items = I2,
                        !.item_relations =
                            UNION {UNION {{[item_id |-> i, related_item_id |-> rid,
                                            field_name |-> f] : rid \in ids(i, f)}
                                          : f \in moved(i)} : i \in changed},
                        !.items_fts = FtsWriteAll(S.items_fts, I2, changed)]
         IN IF raises THEN {[exc |-> "crash", store |-> S]}
            ELSE {[exc |-> "none", store |-> done]}
                    \cup (IF Unindexed(S.items_fts, changed)
                          THEN {[exc |-> "crash", store |-> S]} ELSE {})

\* executescript(FTS_SQL): creates an empty index and the triggers when the
\* table is not there yet; fails, and is skipped, without FTS5.
CreateFts(S, has_fts5) ==
    IF has_fts5 /\ ~S.items_fts.exists
    THEN [S EXCEPT !.items_fts = [exists |-> TRUE, rows |-> <<>>]]
    ELSE S

\* ensure_schema: the results it can have on store S.  An exception of
\* _migrate leaves the function before FTS_SQL runs.
ensure_schema(S, has_fts5) ==
    {IF r.exc = "none"
     THEN [exc |-> "none", store |-> CreateFts(r.store, has_fts5)]
     ELSE r : r \in MigrateRefData(MigrateRefType(MigrateCollections(S)))}

(* ---------------------------------------------------------------------- *)
(* types_mod.py                                                            *)
(* ---------------------------------------------------------------------- *)
\* Variant that looks at the new parent only and does not walk its chain.
CircularWalk_first(T, current, visited) ==
    current # None /\ current \in visited

\* The while loop of _check_circular_parent: TRUE when it returns the
\* "Circular parent_type reference detected" message.
RECURSIVE CircularWalk(_, _, _)
CircularWalk(T, current, visited) ==
    IF current = None THEN FALSE
    ELSE IF current \in visited THEN TRUE
    ELSE CircularWalk(T,
                      IF current \in DOMAIN T THEN T[current].parent_type ELSE None,
                      visited \cup {current})

\* Variant whose visited set starts empty instead of holding type_name.
_check_circular_parent_novisit(T, type_name, new_parent) ==
    CircularWalk(T, new_parent, {})

_check_circular_parent(T, type_name, new_parent) ==
    CircularWalk(T, new_parent, {type_name})

\* INSERT ... ON CONFLICT(name) DO UPDATE of cmd_type_set.
UpsertType(T, data) ==
    [n \in (DOMAIN T) \cup {data.name} |->
        IF n = data.name
        THEN [parent_type |-> data.parent_type,
              abstract |-> data.abstract,
              fields_schema |-> data.fields_schema]
        ELSE T[n]]

\* Outcome of cmd_type_set on the type table T.
TypeSetOutcome(T, data) ==
    IF data.parent_type # None /\ data.parent_type \notin DOMAIN T
    THEN "error"
    ELSE IF data.parent_type # None /\ data.name \in DOMAIN T
            /\ _check_circular_parent(T, data.name, data.parent_type)
    THEN "error"
    ELSE "ok"

\* The tables of the store as one record.
Store ==
    [types |-> types, items |-> items, item_relations |-> item_relations,
     seq |-> seq, items_fts |-> items_fts, legacy |-> legacy]

\* The store a command leaves behind, and what it printed.
Commit(S, l) ==
    /\ types' = S.types
    /\ items' = S.items
    /\ item_relations' = S.item_relations
    /\ seq' = S.seq
    /\ items_fts' = S.items_fts
    /\ legacy' = S.legacy
    /\ last' = l
    /\ UNCHANGED <<fts5, calls>>

\* A command whose ensure_schema raised: the exception reaches the caller.
Crashed(es) == {[outcome |-> "crash", id |-> NoItem, store |-> es.store]}

\* cmd_type_set after ensure_schema, on store S.
TypeSet(S, data) ==
    {[outcome |-> TypeSetOutcome(S.types, data), id |-> NoItem,
      store |-> IF TypeSetOutcome(S.types, data) = "ok"
                THEN [S EXCEPT !.types = UpsertType(S.types, data)]
                ELSE S]}

cmd_type_set(data) ==
    \E es \in ensure_schema(Store, fts5) :
        \E r \in (IF es.exc # "none" THEN Crashed(es) ELSE TypeSet(es.store, data)) :
            Commit(r.store, [op |-> "type_set", outcome |-> r.outcome, id |-> NoItem,
                             req |-> data])

\* cmd_type_delete after ensure_schema: DELETE FROM types with the ON DELETE
\* SET NULL actions of types.parent_type and items.type; the action on items
\* fires items_fts_au for the rows it changes.
TypeDelete(S, name) ==
    LET touched == {i \in DOMAIN S.items : S.items[i].type = name}
        I2 == [i \in DOMAIN S.items |->
                  IF S.items[i].type = name
                  THEN [S.items[i] EXCEPT !.type = None]
                  ELSE S.items[i]]
    IN {[outcome |-> "ok", id |-> NoItem,
         store |-> [S EXCEPT
                      !.types = [n \in (DOMAIN S.types) \ {name} |->
                                    IF S.types[n].parent_type = name
                                    THEN [S.types[n] EXCEPT !.parent_type = None]
                                    ELSE S.types[n]],
                      !.items = I2,
                      !.items_fts = FtsWriteAll(S.items_fts, I2, touched)]]}
           \cup (IF Unindexed(S.items_fts, touched)
                 THEN {[outcome |-> "crash", id |-> NoItem, store |-> S]} ELSE {})

cmd_type_delete(name) ==
    \E es \in ensure_schema(Store, fts5) :
        \E r \in (IF es.exc # "none" THEN Crashed(es) ELSE TypeDelete(es.store, name)) :
            Commit(r.store, [op |-> "type_delete", outcome |-> r.outcome, id |-> NoItem,
                             req |-> [name |-> name]])

(* ---------------------------------------------------------------------- *)
(* items_mod.py: helpers                                                   *)
(* ---------------------------------------------------------------------- *)
\* Variant that only checks that the type is stored.
_validate_type_noabstract(T, type_name) ==
    type_name # None /\ type_name \notin DOMAIN T

\* TRUE when _validate_type returns an error message.
_validate_type(T, type_name) ==
    IF type_name = None THEN FALSE
    ELSE IF type_name \notin DOMAIN T THEN TRUE
    ELSE T[type_name].abstract

\* int(v) of a JSON value: the exception it raises, "none" when it converts.
IntExc(val) ==
    IF val.kind = "int" THEN "none"
    ELSE IF val.kind = "str" THEN "ValueError"
    ELSE "TypeError"

\* Exception raised while one ref field of the payload is converted.
FieldExc(finfo, val) ==
    IF finfo.multiple /\ val.kind = "list" THEN "none"
    ELSE IF ~finfo.multiple /\ val.kind # "null" THEN IntExc(val)
    ELSE "none"

\* (related_item_id, field_name) tuples one ref field contributes.
FieldRelations(fname, finfo, val) ==
    IF finfo.multiple /\ val.kind = "list"
    THEN {[related_item_id |-> val.v[i], field_name |-> fname] : i \in DOMAIN val.v}
    ELSE IF ~finfo.multiple /\ val.kind # "null"
    THEN {[related_item_id |-> val.v[1], field_name |-> fname]}
    ELSE {}

\* _extract_refs: the exception ("none" when it returns), the cleaned data
\* and the relations.
_extract_refs(T, type_name, item_data) ==
    LET ref_fields == get_ref_fields(T, type_name)
        present == (DOMAIN ref_fields) \cap (DOMAIN item_data)
        failing == {f \in present : FieldExc(ref_fields[f], item_data[f]) # "none"}
    IN IF type_name = None \/ DOMAIN ref_fields = {}
       THEN [exc |-> "none", cleaned |-> item_data, relations |-> {}]
       ELSE IF failing # {}
       THEN [exc |-> FieldExc(ref_fields[CHOOSE f \in failing : TRUE],
                              item_data[CHOOSE f \in failing : TRUE]),
             cleaned |-> item_data, relations |-> {}]
       ELSE [exc |-> "none",
             cleaned |-> DictWithout(item_data, present),
             relations |-> UNION {FieldRelations(f, ref_fields[f], item_data[f]) : f \in present}]

\* _save_relations: the exception it raises on the item table I ("none" when
\* every INSERT OR IGNORE passes the field check and the foreign keys).
SaveRelationsExc(T, I, item_id, relations, type_name) ==
    LET ref_fields == get_ref_fields(T, type_name)
    IN IF relations = {} THEN "none"
       ELSE IF \E r \in relations : r.field_name \notin DOMAIN ref_fields
       THEN "ValueError"
       ELSE IF item_id \notin DOMAIN I
               \/ \E r \in relations : r.related_item_id \notin DOMAIN I
       THEN "IntegrityError"
       ELSE "none"

\* Edge rows _save_relations inserts.
_save_relations(item_id, relations) ==
    {[item_id |-> item_id, related_item_id |-> r.related_item_id,
      field_name |-> r.field_name] : r \in relations}

\* The orders in which a query without ORDER BY can return the rows S.
RowOrders(S) == {q \in [1..Cardinality(S) -> S] : SeqRange(q) = S}

\* Variant that returns every relation field as a list.
_enrich_items_aslist(T, R, item_id, item) ==
    LET item_rels == {e \in R : e.item_id = item_id}
        fnames == {e.field_name : e \in item_rels}
        ids(f) == {e.related_item_id : e \in {x \in item_rels : x.field_name = f}}
        merged(f) == {JList(q) : q \in RowOrders(ids(f))}
        overlays == {c \in [fnames -> UNION {merged(f) : f \in fnames}] :
                        \A f \in fnames : c[f] \in merged(f)}
    IN {DictUpdate(item.data, c) : c \in overlays}

\* _enrich_items for one item: the data objects it can produce, one for each
\* order in which the relation rows can come back.
_enrich_items(T, R, item_id, item) ==
    LET item_rels == {e \in R : e.item_id = item_id}
        fnames == {e.field_name : e \in item_rels}
        ref_fields == get_ref_fields(T, item.type)
        ids(f) == {e.related_item_id : e \in {x \in item_rels : x.field_name = f}}
        finfo(f) == Get(ref_fields, f, [ref_type |-> ""])
        merged(f) == IF Get(finfo(f), "multiple", FALSE)
                     THEN {JList(q) : q \in RowOrders(ids(f))}
                     ELSE {JInt(q[1]) : q \in RowOrders(ids(f))}
        overlays == {c \in [fnames -> UNION {merged(f) : f \in fnames}] :
                        \A f \in fnames : c[f] \in merged(f)}
    IN {DictUpdate(item.data, c) : c \in overlays}

\* cmd_item_get: the data objects the command can print for an existing item.
cmd_item_get(T, I, R, item_id) ==
    IF item_id \notin DOMAIN I THEN {} ELSE _enrich_items(T, R, item_id, I[item_id])

(* ---------------------------------------------------------------------- *)
(* items_mod.py: commands                                                  *)
(* ---------------------------------------------------------------------- *)
\* The data argument of a payload: given as a JSON object, or as a string
\* holding the JSON text of the object obj.
DataObj(obj) == [str |-> FALSE, obj |-> obj]
DataStr(obj) == [str |-> TRUE, obj |-> obj]

\* Result of _insert_item followed by the commit or the close of cmd_item_add:
\* the outcome and the tables afterwards.
InsertItem(T, I, R, sq, data) ==
    LET type_name == Get(data, "type", None)
        item_data == Get(data, "data", DataObj(EmptyDict)).obj
        ex == _extract_refs(T, type_name, item_data)
        item_id == sq + 1
        parent_id == Get(data, "parent_id", NoItem)
        I2 == [i \in (DOMAIN I) \cup {item_id} |->
                  IF i = item_id
                  THEN [type |-> type_name, title |-> data.title,
                        content |-> Get(data, "content", NoText),
                        data |-> ex.cleaned, parent_id |-> parent_id,
                        status |-> Get(data, "status", Active)]
                  ELSE I[i]]
        sv == SaveRelationsExc(T, I2, item_id, ex.relations, type_name)
        unchanged(out) == [outcome |-> out, items |-> I, rels |-> R, seq |-> sq]
    IN IF _validate_type(T, type_name) THEN unchanged("error")
       ELSE IF ex.exc = "ValueError" THEN unchanged("error")
       ELSE IF ex.exc # "none" THEN unchanged("crash")
       ELSE IF parent_id # NoItem /\ parent_id \notin DOMAIN I2 THEN unchanged("crash")
       ELSE IF sv = "ValueError" THEN unchanged("error")
       ELSE IF sv # "none" THEN unchanged("crash")
       ELSE [outcome |-> "ok", items |-> I2,
             rels |-> R \cup _save_relations(item_id, ex.relations),
             seq |-> item_id]

\* cmd_item_add after ensure_schema: the insert fires items_fts_ai.
ItemAdd(S, res, data) ==
    {[outcome |-> res.outcome,
      id |-> IF res.outcome = "ok" THEN res.seq ELSE NoItem,
      store |-> IF res.outcome = "ok"
                THEN [S EXCEPT !.items = res.items, !.item_relations = res.rels,
                               !.seq = res.seq,
                               !.items_fts = items_fts_ai(S.items_fts, res.seq,
                                                          res.items[res.seq])]
                ELSE S]}

\* cmd_item_add while fewer than cap ids have been given out.
cmd_item_add_upto(cap, data) ==
    \E es \in ensure_schema(Store, fts5) :
        /\ es.store.seq < cap
        /\ \E r \in (IF es.exc # "none" THEN Crashed(es)
                     ELSE ItemAdd(es.store,
                                  InsertItem(es.store.types, es.store.items,
                                             es.store.item_relations, es.store.seq, data),
                                  data)) :
              Commit(r.store, [op |-> "item_add", outcome |-> r.outcome, id |-> r.id,
                               req |-> data])

cmd_item_add(data) == cmd_item_add_upto(MaxItems, data)

\* Variant without the second loop: only fields that got a new relation.
UpdatedFieldNames_relonly(relations, ref_fields, d) ==
    {r.field_name : r \in relations}

\* updated_field_names of cmd_item_update: the fields of the extracted
\* relations, and the ref fields present in the data payload (set to null or
\* to an empty list).
UpdatedFieldNames(relations, ref_fields, d) ==
    {r.field_name : r \in relations} \cup {f \in DOMAIN ref_fields : f \in DOMAIN d}

\* Payload keys cmd_item_update turns into SET clauses.
UpdateColumns == {"title", "content", "parent_id", "status", "type", "data"}

\* Result of cmd_item_update: the outcome and the tables afterwards.
UpdateItem(T, I, R, iid, updates) ==
    LET type_name == IF Get(updates, "type", None) # None THEN updates.type
                     ELSE IF iid \in DOMAIN I THEN I[iid].type ELSE None
        has_data == "data" \in DOMAIN updates
        is_dict == has_data /\ ~updates.data.str
        d == IF has_data THEN updates.data.obj ELSE EmptyDict
        ex == IF is_dict THEN _extract_refs(T, type_name, d)
              ELSE [exc |-> "none", cleaned |-> d, relations |-> {}]
        new_data == IF is_dict /\ iid \in DOMAIN I
                    THEN DictUpdate(I[iid].data, ex.cleaned)
                    ELSE ex.cleaned
        ref_fields == get_ref_fields(T, type_name)
        updated_field_names ==
            IF is_dict THEN UpdatedFieldNames(ex.relations, ref_fields, d) ELSE {}
        R1 == {e \in R : ~(e.item_id = iid /\ e.field_name \in updated_field_names)}
        sv == IF is_dict THEN SaveRelationsExc(T, I, iid, ex.relations, type_name)
              ELSE "none"
        R2 == R1 \cup _save_relations(iid, ex.relations)
        row == IF iid \in DOMAIN I
               THEN [type |-> Get(updates, "type", I[iid].type),
                     title |-> Get(updates, "title", I[iid].title),
                     content |-> Get(updates, "content", I[iid].content),
                     data |-> IF has_data THEN new_data ELSE I[iid].data,
                     parent_id |-> Get(updates, "parent_id", I[iid].parent_id),
                     status |-> Get(updates, "status", I[iid].status)]
               ELSE [type |-> None, title |-> NoText, content |-> NoText,
                     data |-> EmptyDict, parent_id |-> NoItem, status |-> Active]
        I2 == [i \in DOMAIN I |-> IF i = iid THEN row ELSE I[i]]
        unchanged(out) == [outcome |-> out, items |-> I, rels |-> R]
    IN IF "type" \in DOMAIN updates /\ _validate_type(T, updates.type)
       THEN unchanged("error")
       ELSE IF ex.exc # "none" THEN unchanged("crash")
       ELSE IF sv # "none" THEN unchanged("crash")
       ELSE IF (DOMAIN updates) \cap UpdateColumns = {} THEN unchanged("error")
       ELSE IF iid \in DOMAIN I /\ row.parent_id # NoItem /\ row.parent_id \notin DOMAIN I
       THEN unchanged("crash")
       ELSE [outcome |-> "ok", items |-> I2, rels |-> R2]

\* cmd_item_update after ensure_schema: the UPDATE fires items_fts_au when it
\* finds the row.
ItemUpdate(S, res, iid) ==
    LET hit == IF res.outcome = "ok" /\ iid \in DOMAIN S.items THEN {iid} ELSE {}
    IN {[outcome |-> res.outcome, id |-> iid,
         store |-> IF res.outcome = "ok"
                   THEN [S EXCEPT !.items = res.items, !.item_relations = res.rels,
                                  !.items_fts = FtsWriteAll(S.items_fts, res.items, hit)]
                   ELSE S]}
           \cup (IF Unindexed(S.items_fts, hit)
                 THEN {[outcome |-> "crash", id |-> iid, store |-> S]} ELSE {})

cmd_item_update(iid, updates) ==
    \E es \in ensure_schema(Store, fts5) :
        \E r \in (IF es.exc # "none" THEN Crashed(es)
                  ELSE ItemUpdate(es.store,
                                  UpdateItem(es.store.types, es.store.items,
                                             es.store.item_relations, iid, updates),
                                  iid)) :
            Commit(r.store, [op |-> "item_update", outcome |-> r.outcome, id |-> iid,
                             req |-> updates])

\* DELETE FROM items WHERE id = iid, with ON DELETE SET NULL on
\* items.parent_id.
DeleteItemRow(I, iid) ==
    [i \in (DOMAIN I) \ {iid} |->
        IF I[i].parent_id = iid THEN [I[i] EXCEPT !.parent_id = NoItem] ELSE I[i]]

\* Variant that cascades from the source column only.
CascadeRelations_source(R, iid) ==
    {e \in R : e.item_id # iid}

\* ON DELETE CASCADE on both columns of item_relations.
CascadeRelations(R, iid) ==
    {e \in R : e.item_id # iid /\ e.related_item_id # iid}

\* cmd_item_delete after ensure_schema: the delete fires items_fts_ad for the
\* row and, through ON DELETE SET NULL, items_fts_au for its children.
ItemDelete(S, iid) ==
    LET children == {i \in (DOMAIN S.items) \ {iid} : S.items[i].parent_id = iid}
        gone == (DOMAIN S.items) \cap {iid}
        I2 == DeleteItemRow(S.items, iid)
    IN {[outcome |-> "ok", id |-> iid,
         store |-> [S EXCEPT
                      !.items = I2,
                      !.item_relations = CascadeRelations(S.item_relations, iid),
                      !.items_fts = FtsWriteAll(items_fts_ad(S.items_fts, iid), I2,
                                                IF gone = {} THEN {} ELSE children)]]}
           \cup (IF Unindexed(S.items_fts, gone \cup (IF gone = {} THEN {} ELSE children))
                 THEN {[outcome |-> "crash", id |-> iid, store |-> S]} ELSE {})

cmd_item_delete(iid) ==
    \E es \in ensure_schema(Store, fts5) :
        \E r \in (IF es.exc # "none" THEN Crashed(es) ELSE ItemDelete(es.store, iid)) :
            Commit(r.store, [op |-> "item_delete", outcome |-> r.outcome, id |-> iid,
                             req |-> [id |-> iid]])

\* filters.get("limit", 100) of cmd_item_list.
DefaultListLimit == 100

Min(a, b) == IF a <= b THEN a ELSE b

\* LIMIT ? OFFSET ? applied to the ordered rows q.
LimitOffset(q, limit, offset) ==
    SubSeq(q, offset + 1, Min(Len(q), offset + limit))

\* The WHERE clause of cmd_item_list for row i: a NULL type is in no IN list.
ListWhere(S, filters, i) ==
    "type" \in DOMAIN filters =>
        /\ S.items[i].type # None
        /\ S.items[i].type \in SeqRange(get_type_descendants(S.types, filters.type))

\* cmd_item_list after ensure_schema: the id sequences it can print.  Rows
\* with equal created_at come back in either order, and created_at counts
\* seconds, so every order of the matching rows can occur.
ItemList(S, filters) ==
    IF "type" \in DOMAIN filters /\ DescendantsExc(S.types, filters.type) # "none"
    THEN {[outcome |-> "crash", rows |-> <<>>, store |-> S]}
    ELSE
    {[outcome |-> "ok", rows |-> LimitOffset(q, Get(filters, "limit", DefaultListLimit),
                                             Get(filters, "offset", 0)), store |-> S]
        : q \in RowOrders({i \in DOMAIN S.items : ListWhere(S, filters, i)})}

cmd_item_list(filters) ==
    \E es \in ensure_schema(Store, fts5) :
        \E r \in (IF es.exc # "none"
                  THEN {[outcome |-> "crash", rows |-> <<>>, store |-> es.store]}
                  ELSE ItemList(es.store, filters)) :
            Commit(r.store, [op |-> "item_list", outcome |-> r.outcome, id |-> NoItem,
                             req |-> filters, rows |-> r.rows])

(* ---------------------------------------------------------------------- *)
(* items_mod.py: search                                                    *)
(* ---------------------------------------------------------------------- *)
\* Case folding of LIKE: the letters of ASCII only.
AsciiFold(c) ==
    CASE c = "A" -> "a" [] c = "B" -> "b" [] c = "C" -> "c" [] OTHER -> c

\* Case folding of the trigram tokenizer: every letter.
UnicodeFold(c) == IF c = "O:" THEN "o:" ELSE AsciiFold(c)

\* A text with every character folded.
LikeFold(text) == [k \in DOMAIN text |-> AsciiFold(text[k])]

TrigramFold(text) == [k \in DOMAIN text |-> UnicodeFold(text[k])]

\* text holds kw as a substring.
Contains(text, kw) ==
    \E at \in 0..(Len(text) - Len(kw)) :
        \A k \in 1..Len(kw) : text[at + k] = kw[k]

\* json.dumps of a data value and of a data object (the text of the data
\* column); the keys are one letter each and are written in one order.
DigitText(n) == <<<<"0">>, <<"1">>, <<"2">>, <<"3">>, <<"4">>, <<"5">>, <<"6">>,
                  <<"7">>, <<"8">>, <<"9">>>>[n + 1]

RECURSIVE ListText(_)
ListText(q) ==
    IF q = <<>> THEN <<>>
    ELSE DigitText(q[1]) \o (IF Len(q) > 1 THEN <<",", " ">> ELSE <<>>) \o ListText(Tail(q))

ValueText(val) ==
    IF val.kind = "null" THEN <<"n", "u", "l", "l">>
    ELSE IF val.kind = "int" THEN DigitText(val.v[1])
    ELSE <<"[">> \o ListText(val.v) \o <<"]">>

RECURSIVE MembersText(_, _)
MembersText(d, keys) ==
    IF keys = {} THEN <<>>
    ELSE LET k == CHOOSE x \in keys : TRUE
         IN <<"\"", k, "\"", ":", " ">> \o ValueText(d[k])
                \o (IF keys # {k} THEN <<",", " ">> ELSE <<>>)
                \o MembersText(d, keys \ {k})

JsonText(d) == <<"{">> \o MembersText(d, DOMAIN d) \o <<"}">>

\* title LIKE ? OR content LIKE ? OR data LIKE ? with pattern %keyword%.
LikeRow(row, keyword) ==
    \/ Contains(LikeFold(row.title), LikeFold(keyword))
    \/ Contains(LikeFold(row.content), LikeFold(keyword))
    \/ Contains(LikeFold(JsonText(row.data)), LikeFold(keyword))

\* items_fts MATCH keyword on one index entry: the trigram tokenizer finds a
\* keyword of three characters or more as a substring of a column, and
\* nothing for a shorter one.
FtsRow(entry, keyword) ==
    /\ Len(keyword) >= 3
    /\ \/ Contains(TrigramFold(entry.title), TrigramFold(keyword))
       \/ Contains(TrigramFold(entry.content), TrigramFold(keyword))
       \/ Contains(TrigramFold(JsonText(entry.data)), TrigramFold(keyword))

\* The ids of the rows matching the keyword, by LIKE and by the index.
LikeMatches(S, keyword) == {i \in DOMAIN S.items : LikeRow(S.items[i], keyword)}

FtsMatches(S, keyword) ==
    {i \in (DOMAIN S.items) \cap (DOMAIN S.items_fts.rows) :
        FtsRow(S.items_fts.rows[i], keyword)}

\* _build_data_filter_clauses with scalar conditions:
\* json_extract(i.data, '$.field') = value for every field of data_filters.
DataFilterWhere(row, data_filters) ==
    \A k \in DOMAIN data_filters :
        k \in DOMAIN row.data /\ row.data[k] = data_filters[k]

\* _build_extra_where: status and data_filters (the date columns are not
\* part of the rows kept here).
_build_extra_where(row, filters) ==
    /\ "status" \in DOMAIN filters => row.status = filters.status
    /\ "data_filters" \in DOMAIN filters => DataFilterWhere(row, filters.data_filters)

\* i.type IN (type_names); type_names is <<>> for None.
TypeWhere(row, type_names) ==
    type_names = <<>> \/ (row.type # None /\ row.type \in SeqRange(type_names))

\* Variant that evaluates the filters of the relation query on the related
\* row instead of the source row.
RelatedCandidates_onrel(S, M, type_names, filters) ==
    {i \in DOMAIN S.items :
        \E e \in S.item_relations :
            /\ e.item_id = i /\ e.related_item_id \in M
            /\ TypeWhere(S.items[e.related_item_id], type_names)
            /\ _build_extra_where(S.items[e.related_item_id], filters)}

\* Variant that follows the edges in both directions.
RelatedCandidates_target(S, M, type_names, filters) ==
    {i \in DOMAIN S.items :
        /\ TypeWhere(S.items[i], type_names)
        /\ _build_extra_where(S.items[i], filters)
        /\ \E e \in S.item_relations :
              \/ e.item_id = i /\ e.related_item_id \in M
              \/ e.related_item_id = i /\ e.item_id \in M}

\* The rows of the direct query and of the relation query before LIMIT, M
\* being the ids whose text matches.
RelatedCandidates(S, M, type_names, filters) ==
    {i \in DOMAIN S.items :
        /\ TypeWhere(S.items[i], type_names)
        /\ _build_extra_where(S.items[i], filters)
        /\ \E e \in S.item_relations : e.item_id = i /\ e.related_item_id \in M}

DirectCandidates(S, M, type_names, filters) ==
    {i \in M : TypeWhere(S.items[i], type_names) /\ _build_extra_where(S.items[i], filters)}

\* The rows a query with LIMIT can return: rank or created_at ties, or no
\* ORDER BY at all, leave the order open.
Limited(C, limit) == {SubSeq(q, 1, Min(Len(q), limit)) : q \in RowOrders(C)}

\* Variant that appends every related row, also those among the direct ones.
MergeRows_nodedup(direct, related, limit) ==
    SubSeq(direct \o related, 1, Min(Len(direct \o related), limit))

\* rows = list(direct); append the related rows not in direct_ids;
\* rows[:limit].
MergeRows(direct, related, limit) ==
    LET merged == direct \o SelectSeq(related, LAMBDA r : r \notin SeqRange(direct))
    IN SubSeq(merged, 1, Min(Len(merged), limit))

\* filters.get("limit", 50) of cmd_item_search and _search_items_like.
DefaultSearchLimit == 50

\* The results of the two queries merged, for the matching ids M.
SearchRows(S, M, type_names, filters, limit) ==
    {MergeRows(d, r, limit) :
        d \in Limited(DirectCandidates(S, M, type_names, filters), limit),
        r \in Limited(RelatedCandidates(S, M, type_names, filters), limit)}

\* _search_items_like.
_search_items_like(S, keyword, type_names, filters) ==
    SearchRows(S, LikeMatches(S, keyword), type_names, filters,
               Get(filters, "limit", DefaultSearchLimit))

\* The try block of cmd_item_search: the rows of the indexed path; without
\* the index table the query raises and rows stays empty.
FtsSearch(S, keyword, type_names, filters) ==
    IF S.items_fts.exists
    THEN SearchRows(S, FtsMatches(S, keyword), type_names, filters,
                    Get(filters, "limit", DefaultSearchLimit))
    ELSE {<<>>}

\* cmd_item_search after ensure_schema: the id sequences it can print, and
\* the path that produced them.
ItemSearch(S, keyword, type_names, filters) ==
    {[outcome |-> "ok", rows |-> q, path |-> "fts", store |-> S]
        : q \in FtsSearch(S, keyword, type_names, filters) \ {<<>>}}
      \cup (IF <<>> \in FtsSearch(S, keyword, type_names, filters)
            THEN {[outcome |-> "ok", rows |-> q, path |-> "like", store |-> S]
                    : q \in _search_items_like(S, keyword, type_names, filters)}
            ELSE {})

cmd_item_search(keyword, filters) ==
    \E es \in ensure_schema(Store, fts5) :
        \E r \in (IF \/ es.exc # "none"
                     \/ /\ "type" \in DOMAIN filters
                        /\ DescendantsExc(es.store.types, filters.type) # "none"
                  THEN {[outcome |-> "crash", rows |-> <<>>, path |-> "none",
                         store |-> es.store]}
                  ELSE ItemSearch(es.store, keyword,
                                  IF "type" \in DOMAIN filters
                                  THEN get_type_descendants(es.store.types, filters.type)
                                  ELSE <<>>,
                                  filters)) :
            Commit(r.store, [op |-> "item_search", outcome |-> r.outcome, id |-> NoItem,
                             req |-> [keyword |-> keyword, filters |-> filters],
                             rows |-> r.rows, path |-> r.path])

(* ---------------------------------------------------------------------- *)
(* Inputs                                                                  *)
(* ---------------------------------------------------------------------- *)
\* fields_schema values: none; a singular ref "s" and a multiple ref "m".
NoFields == <<>>
RefFields == <<[name |-> "s", type |-> "ref", ref_type |-> "A"],
               [name |-> "m", type |-> "ref", ref_type |-> "A", multiple |-> TRUE]>>

TypeSetInputs ==
    [name : TypeNames, parent_type : TypeNames \cup {None},
     abstract : BOOLEAN, fields_schema : {NoFields, RefFields}]

\* data objects of the payloads
DataXY == [k \in {"x", "y"} |-> IF k = "x" THEN JInt(1) ELSE JInt(9)]
DataX == [k \in {"x"} |-> JInt(2)]
DataS(n) == [k \in {"s"} |-> JInt(n)]
DataSNull == [k \in {"s"} |-> JNull]
DataMEmpty == [k \in {"m"} |-> JList(<<>>)]
DataSMX == [k \in {"s", "m", "x"} |->
               IF k = "s" THEN JInt(1) ELSE IF k = "m" THEN JList(<<1, 2>>) ELSE JInt(1)]

Title == <<"t">>

AddInputs ==
    LET datas == {DataObj(DataXY), DataObj(DataSMX)}
        base == {[title |-> Title]}
                    \cup {[title |-> Title, data |-> d] : d \in datas}
        typed == base \cup UNION {{[k \in (DOMAIN p) \cup {"type"} |->
                                      IF k = "type" THEN t ELSE p[k]] : p \in base}
                                  : t \in TypeNames}
    IN typed \cup {[k \in (DOMAIN p) \cup {"parent_id"} |->
                       IF k = "parent_id" THEN 1 ELSE p[k]] : p \in typed}

UpdateInputs ==
    {[type |-> t] : t \in TypeNames \cup {None}}
        \cup {[data |-> DataObj(d)] : d \in {DataX, DataSNull, DataS(2), DataMEmpty}}
        \cup {[data |-> DataStr(DataS(1))]}
        \cup {[type |-> "A", data |-> DataObj(DataS(1))],
              [type |-> None, data |-> DataObj(DataSNull)]}
        \cup {[parent_id |-> p] : p \in {NoItem, 1}}

Init ==
    /\ types = [n \in {} |-> [parent_type |-> None, abstract |-> FALSE,
                              fields_schema |-> <<>>]]
    /\ items = [i \in {} |-> [type |-> None, title |-> Title, content |-> NoText,
                              data |-> EmptyDict, parent_id |-> NoItem,
                              status |-> Active]]
    /\ item_relations = {}
    /\ seq = 0
    /\ last = [op |-> "init", outcome |-> "ok", id |-> NoItem, req |-> [name |-> None]]
    /\ steps = 0
    /\ items_fts = NoIndex
    /\ legacy = NoLegacy
    /\ fts5 = TRUE
    /\ calls = NoCalls

\* One command of one process is counted against the step bound.
Tick == steps < MaxSteps /\ steps' = steps + 1

Next ==
    \/ \E data \in TypeSetInputs : Tick /\ cmd_type_set(data)
    \/ \E name \in TypeNames : Tick /\ cmd_type_delete(name)
    \/ \E data \in AddInputs : Tick /\ cmd_item_add(data)
    \/ \E iid \in ItemIds, updates \in UpdateInputs : Tick /\ cmd_item_update(iid, updates)
    \/ \E iid \in ItemIds : Tick /\ cmd_item_delete(iid)

Spec == Init /\ [][Next]_vars

(* ---------------------------------------------------------------------- *)
(* The type commands alone, over three type names                          *)
(* ---------------------------------------------------------------------- *)
TypeNames3 == {"A", "B", "C"}

TypeSetInputs3 ==
    [name : TypeNames3, parent_type : TypeNames3 \cup {None},
     abstract : BOOLEAN, fields_schema : {NoFields}]

NextTypes ==
    \/ \E data \in TypeSetInputs3 : cmd_type_set(data) /\ UNCHANGED steps
    \/ \E name \in TypeNames3 : cmd_type_delete(name) /\ UNCHANGED steps

SpecTypes == Init /\ [][NextTypes]_vars

(* ---------------------------------------------------------------------- *)
(* Properties                                                              *)
(* ---------------------------------------------------------------------- *)
\* The name reached from n after k parent_type steps (None when the chain
\* has ended or left the table).
RECURSIVE Up(_, _, _)
Up(T, n, k) ==
    IF k = 0 THEN n
    ELSE IF n \notin DOMAIN T THEN None
    ELSE Up(T, T[n].parent_type, k - 1)

ProperAncestors(T, n) ==
    {Up(T, n, k) : k \in 1..(Cardinality(DOMAIN T) + 1)} \ {None}

\* C4: the parent_type relation is acyclic: every parent names a stored
\* type, no type is among its own ancestors, and every chain ends at a type
\* without parent within as many steps as there are types.
C4_ParentTypeAcyclic ==
    \A n \in DOMAIN types :
        /\ types[n].parent_type \in (DOMAIN types) \cup {None}
        /\ n \notin ProperAncestors(types, n)
        /\ Up(types, n, Cardinality(DOMAIN types)) = None

\* A chain of three types stands after a successful type_set.
C4_Witness ==
    /\ last.op = "type_set" /\ last.outcome = "ok"
    /\ \E n \in DOMAIN types : Cardinality(ProperAncestors(types, n)) = 2

\* A type_set request that would close a cycle on the type table T.
ClosesCycle(T, data) ==
    \/ data.parent_type = data.name
    \/ /\ data.parent_type # None
       /\ data.name \in ProperAncestors(T, data.parent_type)

\* C5: a type_set whose parent_type is the type itself, or whose parent's
\* chain already reaches the type, returns an error and leaves every type
\* row as it was.
C5_CycleRejected ==
    [][(last'.op = "type_set" /\ ClosesCycle(types, last'.req))
          => (last'.outcome = "error" /\ types' = types)]_vars

\* A type_set that would close a cycle through a second type was refused.
C5_Witness ==
    /\ last.op = "type_set" /\ last.outcome = "error"
    /\ last.req.parent_type # last.req.name
    /\ last.req.parent_type \in DOMAIN types
    /\ last.req.name \in ProperAncestors(types, last.req.parent_type)

\* C1: every item's type is empty or names a stored type that is not
\* abstract.
C1_ItemTypesConcrete ==
    \A i \in DOMAIN items :
        \/ items[i].type = None
        \/ /\ items[i].type \in DOMAIN types
           /\ ~types[items[i].type].abstract

\* C2: no item's stored data holds a key that is a ref field in the
\* resolved fields of the item's current type.
C2_NoRefKeyInData ==
    \A i \in DOMAIN items :
        (DOMAIN items[i].data) \cap (DOMAIN get_ref_fields(types, items[i].type)) = {}

\* C3: the field_name of every relation edge is a ref field in the resolved
\* fields of the source item's current type.
C3_EdgeFieldDeclared ==
    \A e \in item_relations :
        /\ e.item_id \in DOMAIN items
        /\ e.field_name \in DOMAIN get_ref_fields(types, items[e.item_id].type)

\* The type name of an item payload that _validate_type must refuse on the
\* type table T.
NamesUnusableType(T, req) ==
    /\ "type" \in DOMAIN req
    /\ req.type # None
    /\ (req.type \notin DOMAIN T \/ T[req.type].abstract)

\* C6: an item add or item update whose payload names a type that is not
\* stored or is abstract returns an error and changes neither the items nor
\* the relation edges.
C6_UnusableTypeRejected ==
    [][(last'.op \in {"item_add", "item_update"} /\ NamesUnusableType(types, last'.req))
          => (last'.outcome = "error" /\ items' = items
                 /\ item_relations' = item_relations /\ seq' = seq)]_vars

\* An update that retypes a stored item to an abstract type was refused.
C6_Witness ==
    /\ last.op = "item_update" /\ last.outcome = "error"
    /\ last.id \in DOMAIN items
    /\ "type" \in DOMAIN last.req
    /\ last.req.type \in DOMAIN types
    /\ types[last.req.type].abstract

\* The related ids a JSON value names: the number itself, or the elements of
\* the list.
ValueIds(val) == IF val.kind = "null" THEN {} ELSE SeqRange(val.v)

\* Targets of the edges of item i under field f.
EdgeTargets(R, i, f) ==
    {e.related_item_id : e \in {x \in R : x.item_id = i /\ x.field_name = f}}

\* An add whose type declares the singular ref "s" and the multiple ref "m"
\* and whose data names one target under "s", at least one under "m", and
\* carries non-ref keys.
RoundTripCase ==
    /\ last.op = "item_add" /\ last.outcome = "ok"
    /\ "type" \in DOMAIN last.req /\ "data" \in DOMAIN last.req
    /\ LET rf == get_ref_fields(types, last.req.type)
           d == last.req.data.obj
       IN /\ {"s", "m"} \subseteq DOMAIN rf
          /\ ~rf["s"].multiple /\ rf["m"].multiple
          /\ {"s", "m"} \subseteq DOMAIN d
          /\ d["s"].kind = "int"
          /\ d["m"].kind = "list" /\ d["m"].v # <<>>
          /\ (DOMAIN d) \ DOMAIN rf # {}

\* C7: after such an add, item get returns the "s" target as a number, the
\* "m" targets as a list with exactly the given elements and the non-ref
\* keys unchanged; the stored data holds neither key and the item's edges
\* are exactly the given ones.
C7_RelationRoundTrip ==
    RoundTripCase =>
        LET i == last.id
            d == last.req.data.obj
            rf == get_ref_fields(types, last.req.type)
            got == cmd_item_get(types, items, item_relations, i)
        IN /\ got # {}
           /\ \A g \in got :
                 /\ "s" \in DOMAIN g /\ g["s"] = d["s"]
                 /\ "m" \in DOMAIN g /\ g["m"].kind = "list"
                 /\ SeqRange(g["m"].v) = SeqRange(d["m"].v)
                 /\ \A k \in (DOMAIN d) \ DOMAIN rf : k \in DOMAIN g /\ g[k] = d[k]
                 /\ DOMAIN g = DOMAIN d
           /\ (DOMAIN items[i].data) \cap {"s", "m"} = {}
           /\ {e \in item_relations : e.item_id = i}
                 = {[item_id |-> i, related_item_id |-> t, field_name |-> "s"]
                        : t \in ValueIds(d["s"])}
                   \cup {[item_id |-> i, related_item_id |-> t, field_name |-> "m"]
                        : t \in ValueIds(d["m"])}

\* The round trip happened with two distinct targets under "m".
C7_Witness ==
    /\ RoundTripCase
    /\ Cardinality(SeqRange(last.req.data.obj["m"].v)) = 2

\* The type whose ref fields an update of item i works with: the type the
\* payload names, else the type the item has.
UpdateType(I, i, req) ==
    IF Get(req, "type", None) # None THEN req.type
    ELSE IF i \in DOMAIN I THEN I[i].type ELSE None

\* The value fits the multiplicity of the field: a number or null for a
\* singular field, a list or null for a multiple one.
FitsField(finfo, val) ==
    IF finfo.multiple THEN val.kind \in {"list", "null"}
    ELSE val.kind \in {"int", "null"}

\* A successful update of a stored item with a data object payload.
DataUpdateDone ==
    /\ last'.op = "item_update" /\ last'.outcome = "ok"
    /\ "data" \in DOMAIN last'.req /\ ~last'.req.data.str
    /\ last'.id \in DOMAIN items

C8_Witness ==
    /\ last.op = "item_update" /\ last.outcome = "ok"
    /\ last.id \in DOMAIN items
    /\ "data" \in DOMAIN last.req /\ ~last.req.data.str
    /\ "s" \in DOMAIN last.req.data.obj
    /\ "s" \in DOMAIN get_ref_fields(types, items[last.id].type)
    /\ EdgeTargets(item_relations, last.id, "s") = {}
    /\ EdgeTargets(item_relations, last.id, "m") # {}

\* C9: after an item update with a data object payload the stored data is
\* the previous data overridden by the payload's non-ref keys: keys absent
\* from the payload keep their value, non-ref keys of the payload take the
\* payload's value, and no other key appears.
C9_DataMerged ==
    [][DataUpdateDone =>
          LET i == last'.id
              d == last'.req.data.obj
              rf == get_ref_fields(types, UpdateType(items, i, last'.req))
              old == items[i].data
              new == items'[i].data
              nonref == (DOMAIN d) \ DOMAIN rf
          IN /\ DOMAIN new = (DOMAIN old) \cup nonref
             /\ \A k \in nonref : new[k] = d[k]
             /\ \A k \in (DOMAIN old) \ nonref : new[k] = old[k]
      ]_vars

\* {x: 2} was merged into data that held x and y: y is kept.
C9_Witness ==
    /\ last.op = "item_update" /\ last.outcome = "ok"
    /\ last.id \in DOMAIN items
    /\ "data" \in DOMAIN last.req /\ ~last.req.data.str
    /\ last.req.data.obj = DataX
    /\ items[last.id].data = [k \in {"x", "y"} |-> IF k = "x" THEN JInt(2) ELSE JInt(9)]

\* C10: after item delete of X the row of X is gone, no edge has X as source
\* or target, every other item is still stored, with an empty parent_id if
\* its parent was X and unchanged otherwise, and the edges that do not
\* mention X are as before.
C10_DeleteCascade ==
    [][(last'.op = "item_delete") =>
          LET X == last'.id
          IN /\ X \notin DOMAIN items'
             /\ \A e \in item_relations' : e.item_id # X /\ e.related_item_id # X
             /\ DOMAIN items' = (DOMAIN items) \ {X}
             /\ \A i \in (DOMAIN items) \ {X} :
                    IF items[i].parent_id = X
                    THEN items'[i] = [items[i] EXCEPT !.parent_id = NoItem]
                    ELSE items'[i] = items[i]
             /\ {e \in item_relations' : e.item_id # X /\ e.related_item_id # X}
                    = {e \in item_relations : e.item_id # X /\ e.related_item_id # X}
             /\ types' = types
      ]_vars

\* The parent of a stored child was deleted: the child is kept without
\* parent and with the one edge that does not mention the deleted item.
C10_Witness ==
    /\ last.op = "item_delete" /\ last.outcome = "ok"
    /\ last.id \notin DOMAIN items
    /\ last.id <= seq
    /\ \E i \in DOMAIN items :
          /\ items[i].parent_id = NoItem
          /\ item_relations = {[item_id |-> i, related_item_id |-> i, field_name |-> "m"]}

\* C11: type_delete of T deletes no item and no other type; every item whose
\* type was T has an empty type, every type whose parent_type was T has an
\* empty parent_type, and every other field of the items and types and every
\* relation edge is as before.
C11_TypeDeleteDetaches ==
    [][(last'.op = "type_delete") =>
          LET T == last'.req.name
          IN /\ DOMAIN items' = DOMAIN items
             /\ DOMAIN types' = (DOMAIN types) \ {T}
             /\ \A i \in DOMAIN items :
                    items'[i] = IF items[i].type = T
                                THEN [items[i] EXCEPT !.type = None]
                                ELSE items[i]
             /\ \A n \in (DOMAIN types) \ {T} :
                    types'[n] = IF types[n].parent_type = T
                                THEN [types[n] EXCEPT !.parent_type = None]
                                ELSE types[n]
             /\ item_relations' = item_relations
      ]_vars

(* ---------------------------------------------------------------------- *)
(* The type commands with declared fields, over three type names           *)
(* ---------------------------------------------------------------------- *)
\* Three declaration lists that redeclare one another's fields with other
\* attributes and in another order.
FieldsP == <<[name |-> "p", type |-> "string"], [name |-> "q", type |-> "string"]>>
FieldsQ == <<[name |-> "q", type |-> "number", required |-> TRUE],
             [name |-> "r", type |-> "string"]>>
FieldsR == <<[name |-> "r", type |-> "date"],
             [name |-> "p", type |-> "number", required |-> TRUE]>>

TypeSetInputsFields ==
    [name : TypeNames3, parent_type : TypeNames3 \cup {None},
     abstract : {FALSE}, fields_schema : {NoFields, FieldsP, FieldsQ, FieldsR}]

NextFields ==
    \/ \E data \in TypeSetInputsFields : cmd_type_set(data) /\ UNCHANGED steps
    \/ \E name \in TypeNames3 : cmd_type_delete(name) /\ UNCHANGED steps

SpecFields == Init /\ [][NextFields]_vars

FieldNames(fs) == {fs[i].name : i \in DOMAIN fs}

\* The declarations of name n in the list fs, in order.
Named(fs, n) == SelectSeq(fs, LAMBDA f : f.name = n)

\* The type itself and its ancestors.
ChainOf(T, c) == {c} \cup ProperAncestors(T, c)

\* The type of c's chain nearest to c that declares a field named n.
NearestDeclaring(T, c, n) ==
    LET ks == {k \in 0..Cardinality(DOMAIN T) :
                  /\ Up(T, c, k) \in DOMAIN T
                  /\ n \in FieldNames(T[Up(T, c, k)].fields_schema)}
    IN Up(T, c, CHOOSE k \in ks : \A j \in ks : k <= j)

\* C12: resolve(C) is resolve(B) without the names C redeclares, in its
\* order, followed by C's own fields in declared order; a name declared in the
\* chain appears with the whole declaration of the nearest type declaring it
\* and nothing of an ancestor's; a type without parent resolves to its own
\* fields and an unknown name to the empty list.
C12_ResolvedFields ==
    /\ \A u \in (TypeNames3 \cup {None}) \ DOMAIN types :
           get_resolved_fields(types, u) = <<>>
    /\ \A c \in DOMAIN types :
          LET own == types[c].fields_schema
              b == types[c].parent_type
              res == get_resolved_fields(types, c)
              chainNames == UNION {FieldNames(types[x].fields_schema) :
                                      x \in ChainOf(types, c)}
          IN /\ b = None => res = own
             /\ b # None =>
                   res = SelectSeq(get_resolved_fields(types, b),
                                   LAMBDA f : f.name \notin FieldNames(own)) \o own
             /\ FieldNames(res) = chainNames
             /\ \A n \in chainNames :
                   Named(res, n) =
                       Named(types[NearestDeclaring(types, c, n)].fields_schema, n)
             /\ \A n \in FieldNames(own) : Named(res, n) = Named(own, n)

\* A chain A <- B <- C stands in which C redeclares a field of A and a field
\* of B and inherits a third.
C12_Witness ==
    /\ last.op = "type_set" /\ last.outcome = "ok"
    /\ \E c \in DOMAIN types :
          /\ types[c].parent_type \in DOMAIN types
          /\ types[types[c].parent_type].parent_type \in DOMAIN types
          /\ LET b == types[c].parent_type
                 a == types[b].parent_type
                 own == FieldNames(types[c].fields_schema)
             IN /\ own \cap FieldNames(types[a].fields_schema) # {}
                /\ own \cap FieldNames(types[b].fields_schema) # {}
                /\ FieldNames(get_resolved_fields(types, c)) \ own # {}

(* ---------------------------------------------------------------------- *)
(* Listing by type over a hierarchy of three type names                    *)
(* ---------------------------------------------------------------------- *)
TypeSetInputsList == {d \in TypeSetInputs3 : ~d.abstract}

AddInputsList == {[title |-> Title]} \cup {[title |-> Title, type |-> t] : t \in TypeNames3}

\* Filters of item list: with and without type, limit and offset.
ListFilters ==
    LET byType == {[k \in {} |-> None]} \cup {[type |-> t] : t \in TypeNames3}
        withLimit == byType \cup {[k \in (DOMAIN f) \cup {"limit"} |->
                                     IF k = "limit" THEN 1 ELSE f[k]] : f \in byType}
    IN withLimit \cup {[k \in (DOMAIN f) \cup {"offset"} |->
                          IF k = "offset" THEN 1 ELSE f[k]] : f \in withLimit}

NextList ==
    \/ \E data \in TypeSetInputsList : cmd_type_set(data) /\ UNCHANGED steps
    \/ \E name \in TypeNames3 : cmd_type_delete(name) /\ UNCHANGED steps
    \/ \E data \in AddInputsList : cmd_item_add(data) /\ UNCHANGED steps
    \/ \E iid \in ItemIds : cmd_item_delete(iid) /\ UNCHANGED steps
    \/ \E filters \in ListFilters : cmd_item_list(filters) /\ UNCHANGED steps

SpecList == Init /\ [][NextList]_vars

\* The subtree of t: t and every type that has t among its ancestors.
Subtree(T, t) == {t} \cup {n \in DOMAIN T : t \in ProperAncestors(T, n)}

\* C13: item list with filter type = T prints, within limit and offset,
\* exactly the items whose type is T or has T among its ancestors, each once,
\* and no item without type or outside the subtree; get_type_descendants(T)
\* holds T and every type below it, each name once.
C13_ListSubtree ==
    /\ \A t \in TypeNames3 :
          LET d == get_type_descendants(types, t)
          IN /\ SeqRange(d) = Subtree(types, t)
             /\ Len(d) = Cardinality(Subtree(types, t))
    /\ (last.op = "item_list" /\ "type" \in DOMAIN last.req) =>
          LET inTree == {i \in DOMAIN items : items[i].type \in Subtree(types, last.req.type)}
              limit == Get(last.req, "limit", DefaultListLimit)
              offset == Get(last.req, "offset", 0)
          IN /\ last.outcome = "ok"
             /\ SeqRange(last.rows) \subseteq inTree
             /\ Cardinality(SeqRange(last.rows)) = Len(last.rows)
             /\ Len(last.rows) = Min(limit, Max(Cardinality(inTree) - offset, 0))
             /\ \A i \in SeqRange(last.rows) : items[i].type # None

\* A list by the root of a chain A <- B <- C printed the item of the
\* grandchild type and left out an item without type.
C13_Witness ==
    /\ last.op = "item_list" /\ "type" \in DOMAIN last.req
    /\ Len(last.rows) = 1
    /\ Cardinality(ProperAncestors(types, items[last.rows[1]].type)) = 2
    /\ last.req.type \in ProperAncestors(types, types[items[last.rows[1]].type].parent_type)
    /\ \E i \in DOMAIN items : items[i].type = None

(* ---------------------------------------------------------------------- *)
(* Search over a store built by the commands, with and without FTS5        *)
(* ---------------------------------------------------------------------- *)
\* Titles and keywords.  Abc and Oebc are in lower case; the keywords are in
\* upper case, shorter than a trigram, or the name of a data key.
Abc == <<"a", "b", "c">>
Oebc == <<"o:", "b", "c">>
KwABC == <<"A", "B", "C">>
KwOEBC == <<"O:", "B", "C">>
KwBC == <<"B", "C">>
KwX == <<"x">>

Done == "done"

DataSX == [k \in {"s", "x"} |-> JInt(1)]

TypeSetInputsSearch ==
    {[name |-> "A", parent_type |-> None, abstract |-> FALSE, fields_schema |-> RefFields],
     [name |-> "B", parent_type |-> "A", abstract |-> FALSE, fields_schema |-> NoFields]}

AddInputsSearch ==
    {[title |-> Abc],
     [title |-> Oebc],
     [title |-> Abc, type |-> "A", status |-> Done],
     [title |-> Abc, type |-> "B"],
     [title |-> Title, type |-> "A", data |-> DataObj(DataS(1))],
     [title |-> Title, type |-> "A", status |-> Done, data |-> DataObj(DataSX)]}

SearchKeywords == {KwABC, KwOEBC, KwBC, KwX}

SearchFilters ==
    {[k \in {} |-> None],
     [type |-> "A"],
     [status |-> Done],
     [data_filters |-> [k \in {"x"} |-> JInt(1)]],
     [limit |-> 1],
     [type |-> "B", limit |-> 1]}

\* The empty store of Init, in an environment with or without FTS5.
InitSearch ==
    /\ types = [n \in {} |-> [parent_type |-> None, abstract |-> FALSE,
                              fields_schema |-> <<>>]]
    /\ items = [i \in {} |-> [type |-> None, title |-> Title, content |-> NoText,
                              data |-> EmptyDict, parent_id |-> NoItem,
                              status |-> Active]]
    /\ item_relations = {}
    /\ seq = 0
    /\ last = [op |-> "init", outcome |-> "ok", id |-> NoItem, req |-> [name |-> None]]
    /\ steps = 0
    /\ items_fts = NoIndex
    /\ legacy = NoLegacy
    /\ fts5 \in BOOLEAN
    /\ calls = NoCalls

NextSearch ==
    \/ \E data \in TypeSetInputsSearch : Tick /\ cmd_type_set(data)
    \/ \E data \in AddInputsSearch : Tick /\ cmd_item_add(data)
    \/ \E keyword \in SearchKeywords, filters \in SearchFilters :
           Tick /\ cmd_item_search(keyword, filters)

SpecSearch == InitSearch /\ [][NextSearch]_vars

\* Item i matches the keyword of the last search in its own text, as the
\* path that answered compares it.
TextMatch(i) ==
    IF last.path = "fts" THEN FtsRow(FtsEntry(items[i]), last.req.keyword)
    ELSE LikeRow(items[i], last.req.keyword)

\* C15: a search result holds no id twice, has at most limit entries, and
\* every entry that matches the keyword in its own text stands before every
\* entry that is there through a relation only.
C15_SearchResultShape ==
    (last.op = "item_search" /\ last.outcome = "ok") =>
        /\ Cardinality(SeqRange(last.rows)) = Len(last.rows)
        /\ Len(last.rows) <= Get(last.req.filters, "limit", DefaultSearchLimit)
        /\ \A i, j \in DOMAIN last.rows :
              (i < j /\ TextMatch(last.rows[j])) => TextMatch(last.rows[i])

\* A search on the indexed path printed a direct match followed by a
\* relation-sourced one.
C15_Witness ==
    /\ last.op = "item_search" /\ last.path = "fts"
    /\ Len(last.rows) = 2
    /\ TextMatch(last.rows[1]) /\ ~TextMatch(last.rows[2])

C17_FallbackFindsAll ==
    (last.op = "item_search" /\ last.outcome = "ok" /\ last.path = "like"
        /\ DOMAIN last.req.filters = {}) =>
        \A i \in DOMAIN items :
            (\/ Contains(TrigramFold(items[i].title), TrigramFold(last.req.keyword))
             \/ Contains(TrigramFold(items[i].content), TrigramFold(last.req.keyword)))
                => i \in SeqRange(last.rows)

(* ---------------------------------------------------------------------- *)
(* Stores of the legacy shape                                              *)
(* ---------------------------------------------------------------------- *)
\* A store written by the legacy program: the collection "As" with a ref
\* field, an item whose title holds "abc" and an item that refers to it in
\* its data.
LegacyStore ==
    [present |-> TRUE,
     collections |-> <<[name |-> "As",
                        fields_schema |-> <<[name |-> "s", type |-> "ref",
                                             ref_collection |-> "As"]>>]>>,
     collection_items |-> <<[collection_id |-> 1, title |-> Abc, content |-> NoText,
                             data |-> EmptyDict, parent_id |-> NoItem,
                             status |-> Active],
                            [collection_id |-> 1, title |-> Title, content |-> NoText,
                             data |-> DataS(1), parent_id |-> NoItem,
                             status |-> Active]>>]

\* Ids given out in the runs that start from a legacy store.
MaxItemsMigrated == 3

InitMigrate ==
    /\ types = [n \in {} |-> [parent_type |-> None, abstract |-> FALSE,
                              fields_schema |-> <<>>]]
    /\ items = [i \in {} |-> [type |-> None, title |-> Title, content |-> NoText,
                              data |-> EmptyDict, parent_id |-> NoItem,
                              status |-> Active]]
    /\ item_relations = {}
    /\ seq = 0
    /\ last = [op |-> "init", outcome |-> "ok", id |-> NoItem, req |-> [name |-> None]]
    /\ steps = 0
    /\ items_fts = NoIndex
    /\ legacy \in {NoLegacy, LegacyStore}
    /\ fts5 \in BOOLEAN
    /\ calls = NoCalls

TypeSetInputsMigrate ==
    {[name |-> "A", parent_type |-> None, abstract |-> FALSE, fields_schema |-> RefFields]}

AddInputsMigrate ==
    {[title |-> Abc], [title |-> Title, type |-> "A", data |-> DataObj(DataS(1))]}

UpdateInputsMigrate == {[title |-> Oebc]}

NoFilters == [k \in {} |-> None]

NextMigrate ==
    \/ \E data \in TypeSetInputsMigrate : Tick /\ cmd_type_set(data)
    \/ \E data \in AddInputsMigrate : Tick /\ cmd_item_add_upto(MaxItemsMigrated, data)
    \/ \E iid \in 1..MaxItemsMigrated, updates \in UpdateInputsMigrate :
           Tick /\ cmd_item_update(iid, updates)
    \/ \E iid \in 1..MaxItemsMigrated : Tick /\ cmd_item_delete(iid)
    \/ Tick /\ cmd_item_list(NoFilters)
    \/ Tick /\ cmd_item_search(KwABC, NoFilters)

SpecMigrate == InitMigrate /\ [][NextMigrate]_vars

\* The place of id i in the sequence q (0 when it is not there).
PlaceOf(q, i) == IF i \in SeqRange(q) THEN CHOOSE k \in DOMAIN q : q[k] = i ELSE 0

\* C14: after a keyword search without filters, for every edge from an item
\* T that does not match the keyword in its text to an item P that does, the
\* result holds both, P before T.
C14_RelatedFound ==
    (last.op = "item_search" /\ last.outcome = "ok"
        /\ DOMAIN last.req.filters = {}) =>
        \A e \in item_relations :
            (TextMatch(e.related_item_id) /\ ~TextMatch(e.item_id)) =>
                /\ PlaceOf(last.rows, e.related_item_id) > 0
                /\ PlaceOf(last.rows, e.item_id) > PlaceOf(last.rows, e.related_item_id)

\* C18: when the index exists it holds one entry per item row, with the
\* row's current title, content and data, and none for another id.
C18_IndexInSync ==
    items_fts.exists =>
        /\ DOMAIN items_fts.rows = DOMAIN items
        /\ \A i \in DOMAIN items : items_fts.rows[i] = FtsEntry(items[i])

\* C20: a second ensure_schema leaves what the first one left: after a run
\* that returned, another run returns with the same store; after a run that
\* raised, another run raises with the same store.
C20_EnsureSchemaIdempotent ==
    \A r \in ensure_schema(Store, fts5) :
        IF r.exc = "none"
        THEN ensure_schema(r.store, fts5) = {r}
        ELSE r \in ensure_schema(r.store, fts5)

\* The first command on a legacy store has run: the legacy rows are items,
\* the reference of the second row is an edge.
C20_Witness ==
    /\ steps = 1 /\ last.op = "item_list" /\ last.outcome = "ok"
    /\ ~legacy.present
    /\ DOMAIN items = {1, 2}
    /\ item_relations = {[item_id |-> 2, related_item_id |-> 1, field_name |-> "s"]}
    /\ "s" \notin DOMAIN items[2].data

\* C19: ensure_schema on a store the commands have built is a no-op: it
\* returns, and types, items and relation edges are as before.
C19_EnsureSchemaNoOp ==
    \A r \in ensure_schema(Store, fts5) :
        /\ r.exc = "none"
        /\ r.store.types = types
        /\ r.store.items = items
        /\ r.store.item_relations = item_relations

(* ---------------------------------------------------------------------- *)
(* Relation values: well-formed, malformed and dangling                    *)
(* ---------------------------------------------------------------------- *)
\* The declarations of RefFields with the cardinalities exchanged.
RefFieldsSwapped ==
    <<[name |-> "s", type |-> "ref", ref_type |-> "A", multiple |-> TRUE],
      [name |-> "m", type |-> "ref", ref_type |-> "A"]>>

TypeSetInputsRefs ==
    [name : {"A"}, parent_type : {None}, abstract : {FALSE},
     fields_schema : {RefFields, RefFieldsSwapped}]

DataM(q) == [k \in {"m"} |-> JList(q)]
DataSList == [k \in {"s"} |-> JList(<<1>>)]
DataMScalar == [k \in {"m"} |-> JInt(1)]
DataSStr == [k \in {"s"} |-> JStr(<<"a", "b", "c">>)]

RefDatas == {DataS(1), DataS(2), DataM(<<1, 2>>), DataSList, DataMScalar, DataSStr}

AddInputsRefs ==
    {[title |-> Title, type |-> "A"]}
        \cup {[title |-> Title, type |-> "A", data |-> DataObj(d)] : d \in RefDatas}

UpdateInputsRefs == {[data |-> DataObj(d)] : d \in RefDatas}

NextRefs ==
    \/ \E data \in TypeSetInputsRefs : Tick /\ cmd_type_set(data)
    \/ \E data \in AddInputsRefs : Tick /\ cmd_item_add(data)
    \/ \E iid \in ItemIds, updates \in UpdateInputsRefs :
           Tick /\ cmd_item_update(iid, updates)
    \/ \E iid \in ItemIds : Tick /\ cmd_item_delete(iid)

SpecRefs == Init /\ [][NextRefs]_vars

\* The data object d holds, for a ref field of the type, a string that is no
\* number, a list for a singular field or a scalar for a multiple field.
Malformed(T, type_name, d) ==
    \E f \in (DOMAIN get_ref_fields(T, type_name)) \cap (DOMAIN d) :
        LET multiple == Get(get_ref_fields(T, type_name)[f], "multiple", FALSE)
        IN \/ d[f].kind = "str"
           \/ ~multiple /\ d[f].kind = "list"
           \/ multiple /\ d[f].kind = "int"

\* The command that just ran was an add or an update whose data object is
\* malformed for the type it is written under.
MalformedWrite ==
    /\ last'.op \in {"item_add", "item_update"}
    /\ "data" \in DOMAIN last'.req
    /\ ~last'.req.data.str
    /\ Malformed(types, UpdateType(items, last'.id, last'.req), last'.req.data.obj)

\* C21: an add or update whose data holds a malformed relation value for a
\* ref field (a non-numeric id, a list for a singular field, a scalar for a
\* multiple field) ends with an error outcome, and the item rows and the
\* edges are as before.
C21_MalformedRefRejected ==
    [][MalformedWrite =>
          /\ last'.outcome = "error"
          /\ items' = items
          /\ item_relations' = item_relations
      ]_vars

(* ---------------------------------------------------------------------- *)
(* cmd_item_add_batch                                                      *)
(* ---------------------------------------------------------------------- *)
MaxBatchItems == 3

\* The loop of cmd_item_add_batch inside its one transaction, from store S
\* with the ids given out so far: it stops at the first _insert_item that
\* raises, with the rows and edges written until then.
RECURSIVE InsertBatch(_, _, _)
InsertBatchNext(S, res, datas, ids) ==
    IF res.outcome # "ok" THEN [outcome |-> res.outcome, store |-> S, ids |-> ids]
    ELSE InsertBatch((CHOOSE a \in ItemAdd(S, res, Head(datas)) : TRUE).store,
                     Tail(datas), Append(ids, res.seq))

InsertBatch(S, datas, ids) ==
    IF datas = <<>> THEN [outcome |-> "ok", store |-> S, ids |-> ids]
    ELSE InsertBatchNext(S, InsertItem(S.types, S.items, S.item_relations, S.seq,
                                       Head(datas)),
                         datas, ids)

\* Variant that commits what the loop wrote before it stopped.
ItemAddBatch_partial(S, b) ==
    {[outcome |-> b.outcome, id |-> NoItem, ids |-> b.ids, store |-> b.store]}

\* cmd_item_add_batch after ensure_schema: the commit after a loop that came
\* to its end, the close without commit after one that raised.
ItemAddBatch(S, b) ==
    {[outcome |-> b.outcome, id |-> NoItem,
      ids |-> IF b.outcome = "ok" THEN b.ids ELSE <<>>,
      store |-> IF b.outcome = "ok" THEN b.store ELSE S]}

cmd_item_add_batch(datas) ==
    \E es \in ensure_schema(Store, fts5) :
        /\ es.store.seq + Len(datas) <= MaxBatchItems
        /\ \E r \in (IF es.exc # "none" THEN Crashed(es)
                     ELSE ItemAddBatch(es.store, InsertBatch(es.store, datas, <<>>))) :
              Commit(r.store, [op |-> "item_add_batch", outcome |-> r.outcome,
                               id |-> NoItem, ids |-> Get(r, "ids", <<>>),
                               req |-> datas])

TypeSetInputsBatch ==
    {[name |-> "A", parent_type |-> None, abstract |-> FALSE,
      fields_schema |-> RefFields],
     [name |-> "B", parent_type |-> None, abstract |-> TRUE,
      fields_schema |-> NoFields]}

\* An item without relations, one with an edge to item 1 and one of a type
\* that is unknown or abstract.
BatchPayloads ==
    {[title |-> Title, type |-> "A"],
     [title |-> Title, type |-> "A", data |-> DataObj(DataS(1))],
     [title |-> Title, type |-> "B"]}

BatchInputs == UNION {[1..n -> BatchPayloads] : n \in 1..MaxBatchItems}

NextBatch ==
    \/ \E data \in TypeSetInputsBatch : Tick /\ cmd_type_set(data)
    \/ \E datas \in BatchInputs : Tick /\ cmd_item_add_batch(datas)
    \/ \E iid \in 1..MaxBatchItems : Tick /\ cmd_item_delete(iid)

SpecBatch == Init /\ [][NextBatch]_vars

\* On store S the loop reaches an item of datas whose type fails
\* _validate_type: every item before it is inserted.
ValidationStops(S, datas) ==
    \E k \in DOMAIN datas :
        /\ InsertBatch(S, SubSeq(datas, 1, k - 1), <<>>).outcome = "ok"
        /\ _validate_type(S.types, Get(datas[k], "type", None))

\* The command that just ran was an add-batch that came to an item failing
\* validation.
BatchFailedValidation ==
    /\ last'.op = "item_add_batch"
    /\ \E es \in ensure_schema(Store, fts5) :
           es.exc = "none" /\ ValidationStops(es.store, last'.req)

\* C22: when an item of an add-batch fails validation the command reports an
\* error and the store holds none of the batch's items or edges: the items
\* before the failing one are not persisted and the ones after it are not
\* attempted; rows, edges and the id counter are what the schema-ensure step
\* left.
C22_BatchAllOrNothing ==
    [][BatchFailedValidation =>
          /\ last'.outcome = "error"
          /\ last'.ids = <<>>
          /\ DOMAIN items' = DOMAIN items
          /\ \E es \in ensure_schema(Store, fts5) :
                 /\ items' = es.store.items
                 /\ item_relations' = es.store.item_relations
                 /\ seq' = es.store.seq
                 /\ items_fts' = es.store.items_fts
      ]_vars

\* A batch of three failed at its third item, after an item and an item with
\* an edge, and the store holds no item and no edge.
C22_Witness ==
    /\ last.op = "item_add_batch"
    /\ last.outcome = "error"
    /\ Len(last.req) = 3
    /\ "type" \in DOMAIN last.req[3] /\ _validate_type(types, last.req[3].type)
    /\ ~_validate_type(types, last.req[1].type)
    /\ ~_validate_type(types, last.req[2].type)
    /\ "data" \in DOMAIN last.req[2]
    /\ items = <<>> /\ item_relations = {}

(* ---------------------------------------------------------------------- *)
(* parent_id of items, and updates of ids that name no item                *)
(* ---------------------------------------------------------------------- *)
\* The item k steps up the parent_id chain of item i.
RECURSIVE ParentUp(_, _, _)
ParentUp(I, i, k) ==
    IF k = 0 \/ i \notin DOMAIN I THEN i ELSE ParentUp(I, I[i].parent_id, k - 1)

\* C23: the parent_id relation is a forest: every parent_id that is set names
\* an existing item, no item is its own parent, and no chain of parent_id
\* comes back to the item it started from.
C23_ParentForest ==
    \A i \in DOMAIN items :
        /\ items[i].parent_id # NoItem => items[i].parent_id \in DOMAIN items
        /\ items[i].parent_id # i
        /\ \A k \in 1..Cardinality(DOMAIN items) : ParentUp(items, i, k) # i

\* C23, the part the foreign key enforces: every parent_id that is set names
\* an existing item.
C23_ParentExists ==
    \A i \in DOMAIN items :
        items[i].parent_id # NoItem => items[i].parent_id \in DOMAIN items

\* C24: an update whose id names no existing item ends with an error outcome
\* and changes no row and no edge.
C24_UpdateMissingRejected ==
    [][(last'.op = "item_update" /\ last'.id \notin DOMAIN items) =>
          /\ last'.outcome = "error"
          /\ items' = items
          /\ item_relations' = item_relations
      ]_vars

(* ---------------------------------------------------------------------- *)
(* Stores whose types table was written from outside the checks            *)
(* ---------------------------------------------------------------------- *)
\* Every parent_type column over three types, the cyclic ones included: the
\* types tables that writers which passed _check_circular_parent side by
\* side, or another program, can leave in the file.
InitCorrupt ==
    /\ types \in [TypeNames3 -> [parent_type : TypeNames3 \cup {None},
                                 abstract : {FALSE}, fields_schema : {NoFields}]]
    /\ items = <<>>
    /\ item_relations = {}
    /\ seq = 0
    /\ last = [op |-> "init", outcome |-> "ok", id |-> NoItem, req |-> [name |-> None]]
    /\ steps = 0
    /\ items_fts = NoIndex
    /\ legacy = NoLegacy
    /\ fts5 = TRUE
    /\ calls = NoCalls

TypeFilters == {[type |-> t] : t \in TypeNames3}

NextCorrupt ==
    \/ \E data \in {[title |-> Title], [title |-> Abc]} : Tick /\ cmd_item_add(data)
    \/ \E iid \in ItemIds : Tick /\ cmd_item_delete(iid)
    \/ \E filters \in TypeFilters : Tick /\ cmd_item_list(filters)
    \/ \E filters \in TypeFilters : Tick /\ cmd_item_search(KwABC, filters)

SpecCorrupt == InitCorrupt /\ [][NextCorrupt]_vars

\* parent_type of the store has a cycle through type n.
OnTypeCycle(T, n) == n \in ProperAncestors(T, n)

\* C25: get_type_descendants comes to an end on every store, one whose
\* parent_type has a cycle included: a list or a search with a type filter
\* returns its rows.
C25_DescendantsTerminate ==
    [][(last'.op \in {"item_list", "item_search"}) => last'.outcome = "ok"]_vars

\* C25 on the stores without a parent_type cycle: the list or search returns.
C25_DescendantsTerminateAcyclic ==
    [][(/\ last'.op \in {"item_list", "item_search"}
        /\ \A n \in DOMAIN types : ~OnTypeCycle(types, n)) => last'.outcome = "ok"]_vars

(* ---------------------------------------------------------------------- *)
(* Search over chains of edges                                             *)
(* ---------------------------------------------------------------------- *)
MaxItemsReach == 3

TypeSetInputsReach ==
    {[name |-> "A", parent_type |-> None, abstract |-> FALSE, fields_schema |-> RefFields]}

\* Items that match "abc" in their title and items that do not, without an
\* edge and with an edge to item 1 or 2.
AddInputsReach ==
    {[title |-> t, type |-> "A"] : t \in {Abc, Title}}
        \cup {[title |-> t, type |-> "A", data |-> DataObj(DataS(n))] :
                 t \in {Abc, Title}, n \in 1..2}

UpdateInputsReach == {[data |-> DataObj(DataS(n))] : n \in 2..MaxItemsReach}

NextReach ==
    \/ \E data \in TypeSetInputsReach : Tick /\ cmd_type_set(data)
    \/ \E data \in AddInputsReach : Tick /\ cmd_item_add_upto(MaxItemsReach, data)
    \/ \E iid \in 1..MaxItemsReach, updates \in UpdateInputsReach :
           Tick /\ cmd_item_update(iid, updates)
    \/ cmd_item_search(KwABC, NoFilters) /\ UNCHANGED steps

SpecReach == InitSearch /\ [][NextReach]_vars

\* Item i is the source of an edge whose target matches the keyword.
SourceOfMatch(i) ==
    \E e \in item_relations : e.item_id = i /\ TextMatch(e.related_item_id)

\* C26: an item of a search result that does not match the keyword itself is
\* the source of an edge whose target matches; an item that is only the
\* target of an edge from a matching item, or only reaches a matching item
\* over two or more edges, is not in the result.
C26_OneEdgeFromSource ==
    (last.op = "item_search" /\ last.outcome = "ok") =>
        \A i \in SeqRange(last.rows) : TextMatch(i) \/ SourceOfMatch(i)

\* A search printed a matching item and an item with an edge to it, and left
\* out an item that reaches the match over two edges only and is itself the
\* target of no edge.
C26_Witness ==
    /\ last.op = "item_search" /\ last.outcome = "ok"
    /\ \E i, j, k \in DOMAIN items :
          /\ TextMatch(i) /\ ~TextMatch(j) /\ ~TextMatch(k)
          /\ i \in SeqRange(last.rows) /\ j \in SeqRange(last.rows)
          /\ k \notin SeqRange(last.rows)
          /\ \E e \in item_relations : e.item_id = j /\ e.related_item_id = i
          /\ \E e \in item_relations : e.item_id = k /\ e.related_item_id = j

\* A search printed a matching item and left out the item its edge points to.
C26_WitnessTarget ==
    /\ last.op = "item_search" /\ last.outcome = "ok"
    /\ \E i, j \in DOMAIN items :
          /\ TextMatch(i) /\ ~TextMatch(j)
          /\ i \in SeqRange(last.rows) /\ j \notin SeqRange(last.rows)
          /\ \E e \in item_relations : e.item_id = i /\ e.related_item_id = j

\* Both endpoints of every edge name a stored item.
EdgeEndpointsExist ==
    \A e \in item_relations :
        e.item_id \in DOMAIN items /\ e.related_item_id \in DOMAIN items

\* The command that just ran was an add or an update whose data object gives
\* well-formed values for the ref fields of its type, one of them an id that
\* names no item: neither a stored one nor, for an add, the new item itself.
DanglingWrite ==
    /\ last'.op \in {"item_add", "item_update"}
    /\ "data" \in DOMAIN last'.req
    /\ ~last'.req.data.str
    /\ LET rf == get_ref_fields(types, UpdateType(items, last'.id, last'.req))
           d == last'.req.data.obj
           known == (DOMAIN items) \cup (IF last'.op = "item_add" THEN {seq + 1} ELSE {})
       IN /\ \A f \in (DOMAIN rf) \cap (DOMAIN d) : FitsField(rf[f], d[f])
          /\ \E f \in (DOMAIN rf) \cap (DOMAIN d) : ValueIds(d[f]) \ known # {}

\* C27: in every state both endpoints of every edge name a stored item, and
\* an add or update whose ref value names an id that does not exist fails
\* and leaves the rows and the edges as they were: no new row, no new edge,
\* no removed edge.
C27_EdgesNameItems ==
    /\ []EdgeEndpointsExist
    /\ [][DanglingWrite =>
             /\ last'.outcome # "ok"
             /\ items' = items
             /\ item_relations' = item_relations
         ]_vars

\* C28: for every item and every singular ref field among the resolved
\* fields of the item's type there is at most one edge of the item under that
\* field.
C28_SingularFieldOneEdge ==
    \A i \in DOMAIN items :
        LET rf == get_ref_fields(types, items[i].type)
        IN \A f \in DOMAIN rf :
              ~rf[f].multiple => Cardinality(EdgeTargets(item_relations, i, f)) <= 1

(* ---------------------------------------------------------------------- *)
(* Commands of processes that run side by side on one store                *)
(* ---------------------------------------------------------------------- *)
\* Every process runs one command on a connection of its own.  Its SELECTs
\* run in autocommit mode and see what is committed; its first write opens
\* the transaction that the commit ends, and SQLite admits one writer at a
\* time: the reads of a command are one step and its writes another, and the
\* commands of other processes can come between the two.
MaxProcs == 2
Procs == 1..MaxProcs

Started == [pc |-> "start"]

\* The store, the last finished command and the processes after a step.
CommitCall(S, l, c) ==
    /\ types' = S.types
    /\ items' = S.items
    /\ item_relations' = S.item_relations
    /\ seq' = S.seq
    /\ items_fts' = S.items_fts
    /\ legacy' = S.legacy
    /\ last' = l
    /\ calls' = c
    /\ UNCHANGED fts5

\* cmd_item_update up to the json.dumps of the merged data: the type check,
\* the type and data the SELECTs find for the row, and _extract_refs.
UpdateItemRead(T, I, iid, updates) ==
    LET type_name == IF Get(updates, "type", None) # None THEN updates.type
                     ELSE IF iid \in DOMAIN I THEN I[iid].type ELSE None
        has_data == "data" \in DOMAIN updates
        is_dict == has_data /\ ~updates.data.str
        d == IF has_data THEN updates.data.obj ELSE EmptyDict
        ex == IF is_dict THEN _extract_refs(T, type_name, d)
              ELSE [exc |-> "none", cleaned |-> d, relations |-> {}]
    IN [outcome |-> IF "type" \in DOMAIN updates /\ _validate_type(T, updates.type)
                    THEN "error"
                    ELSE IF ex.exc # "none" THEN "crash" ELSE "ok",
        type_name |-> type_name,
        relations |-> ex.relations,
        d |-> IF is_dict /\ iid \in DOMAIN I
              THEN DictUpdate(I[iid].data, ex.cleaned)
              ELSE ex.cleaned]

\* cmd_item_update from the DELETE of the old edges to the commit, with the
\* type name, the relations and the merged data rd that its reads produced,
\* on the tables as they are now.
UpdateItemWrite(T, I, R, iid, updates, rd) ==
    LET has_data == "data" \in DOMAIN updates
        is_dict == has_data /\ ~updates.data.str
        ref_fields == get_ref_fields(T, rd.type_name)
        updated_field_names ==
            IF is_dict
            THEN UpdatedFieldNames(rd.relations, ref_fields, updates.data.obj)
            ELSE {}
        R1 == {e \in R : ~(e.item_id = iid /\ e.field_name \in updated_field_names)}
        sv == IF is_dict THEN SaveRelationsExc(T, I, iid, rd.relations, rd.type_name)
              ELSE "none"
        R2 == R1 \cup _save_relations(iid, rd.relations)
        row == IF iid \in DOMAIN I
               THEN [type |-> Get(updates, "type", I[iid].type),
                     title |-> Get(updates, "title", I[iid].title),
                     content |-> Get(updates, "content", I[iid].content),
                     data |-> IF has_data THEN rd.d ELSE I[iid].data,
                     parent_id |-> Get(updates, "parent_id", I[iid].parent_id),
                     status |-> Get(updates, "status", I[iid].status)]
               ELSE [type |-> None, title |-> NoText, content |-> NoText,
                     data |-> EmptyDict, parent_id |-> NoItem, status |-> Active]
        I2 == [i \in DOMAIN I |-> IF i = iid THEN row ELSE I[i]]
        unchanged(out) == [outcome |-> out, items |-> I, rels |-> R]
    IN IF sv # "none" THEN unchanged("crash")
       ELSE IF (DOMAIN updates) \cap UpdateColumns = {} THEN unchanged("error")
       ELSE IF iid \in DOMAIN I /\ row.parent_id # NoItem /\ row.parent_id \notin DOMAIN I
       THEN unchanged("crash")
       ELSE [outcome |-> "ok", items |-> I2, rels |-> R2]

\* What a process keeps of a finished command.
Finished(iid, req, outcome, hit) ==
    [pc |-> "done", iid |-> iid, req |-> req, outcome |-> outcome, hit |-> hit]

\* Process p runs cmd_item_update up to its first write: ensure_schema, which
\* commits, and the reads.  A command that ends here has written nothing
\* more.
cmd_item_update_read(p, iid, updates) ==
    /\ calls[p].pc = "start"
    /\ \E es \in ensure_schema(Store, fts5) :
          \E out \in {IF es.exc # "none" THEN "crash"
                      ELSE UpdateItemRead(es.store.types, es.store.items, iid,
                                          updates).outcome} :
              IF out = "ok"
              THEN CommitCall(es.store, last,
                              [calls EXCEPT ![p] =
                                  [pc |-> "write", iid |-> iid, req |-> updates,
                                   read |-> UpdateItemRead(es.store.types,
                                                           es.store.items, iid,
                                                           updates)]])
              ELSE CommitCall(es.store,
                              [op |-> "item_update", outcome |-> out, id |-> iid,
                               req |-> updates],
                              [calls EXCEPT ![p] = Finished(iid, updates, out, FALSE)])

\* Process p runs the rest of cmd_item_update: its writes and the commit.
cmd_item_update_write(p) ==
    /\ calls[p].pc = "write"
    /\ \E r \in ItemUpdate(Store,
                           UpdateItemWrite(types, items, item_relations,
                                           calls[p].iid, calls[p].req, calls[p].read),
                           calls[p].iid) :
          CommitCall(r.store,
                     [op |-> "item_update", outcome |-> r.outcome,
                      id |-> calls[p].iid, req |-> calls[p].req],
                     [calls EXCEPT ![p] =
                         Finished(calls[p].iid, calls[p].req, r.outcome,
                                  calls[p].iid \in DOMAIN items)])

DataY == [k \in {"y"} |-> JInt(3)]

AddInputsRace == {[title |-> Title], [title |-> Title, data |-> DataObj(DataXY)]}

UpdateInputsRace == {[data |-> DataObj(DataX)], [data |-> DataObj(DataY)], [title |-> Abc]}

InitRace ==
    /\ types = [n \in {} |-> [parent_type |-> None, abstract |-> FALSE,
                              fields_schema |-> <<>>]]
    /\ items = <<>>
    /\ item_relations = {}
    /\ seq = 0
    /\ last = [op |-> "init", outcome |-> "ok", id |-> NoItem, req |-> [name |-> None]]
    /\ steps = 0
    /\ items_fts = NoIndex
    /\ legacy = NoLegacy
    /\ fts5 = TRUE
    /\ calls = [p \in Procs |-> Started]

NextUpdateRace ==
    \/ \E data \in AddInputsRace : Tick /\ cmd_item_add(data)
    \/ \E p \in Procs, iid \in ItemIds, updates \in UpdateInputsRace :
           Tick /\ cmd_item_update_read(p, iid, updates)
    \/ \E p \in Procs : cmd_item_update_write(p) /\ UNCHANGED steps

SpecUpdateRace == InitRace /\ [][NextUpdateRace]_vars

\* The keys of the data object of an update payload.
DataKeys(req) ==
    IF "data" \in DOMAIN req /\ ~req.data.str THEN DOMAIN req.data.obj ELSE {}

\* C29: when two item updates of the same item, each setting another non-ref
\* key of data, have both committed, the stored data holds both keys with
\* the values given, in whatever order their steps were taken.
C29_BothKeysKept ==
    \A p, q \in Procs :
        (/\ p # q
         /\ calls[p].pc = "done" /\ calls[q].pc = "done"
         /\ calls[p].outcome = "ok" /\ calls[q].outcome = "ok"
         /\ calls[p].hit /\ calls[q].hit
         /\ calls[p].iid = calls[q].iid
         /\ DataKeys(calls[p].req) # {} /\ DataKeys(calls[q].req) # {}
         /\ DataKeys(calls[p].req) \cap DataKeys(calls[q].req) = {})
        => \A k \in DataKeys(calls[p].req) :
              /\ k \in DOMAIN items[calls[p].iid].data
              /\ items[calls[p].iid].data[k] = calls[p].req.data.obj[k]

\* C29 for updates that do not overlap: the second command starts after the
\* first has committed.
C29_BothKeysKeptInTurn ==
    [][\A p, q \in Procs :
          (/\ p # q
           /\ calls[p].pc = "done" /\ calls[p].outcome = "ok" /\ calls[p].hit
           /\ calls[q].pc = "start" /\ calls'[q].pc = "done"
           /\ calls'[q].outcome = "ok" /\ calls'[q].iid = calls[p].iid)
          => \A k \in DataKeys(calls[p].req) \ DataKeys(calls'[q].req) :
                /\ k \in DOMAIN items'[calls[p].iid].data
                /\ items'[calls[p].iid].data[k] = calls[p].req.data.obj[k]
      ]_vars

\* cmd_type_set up to its INSERT: the parent-exists check and
\* _check_circular_parent.  A command that ends here has written nothing.
cmd_type_set_read(p, data) ==
    /\ calls[p].pc = "start"
    /\ \E es \in ensure_schema(Store, fts5) :
          \E out \in {IF es.exc # "none" THEN "crash"
                      ELSE TypeSetOutcome(es.store.types, data)} :
              IF out = "ok"
              THEN CommitCall(es.store, last,
                              [calls EXCEPT ![p] = [pc |-> "write", req |-> data]])
              ELSE CommitCall(es.store,
                              [op |-> "type_set", outcome |-> out, id |-> NoItem,
                               req |-> data],
                              [calls EXCEPT ![p] = Finished(NoItem, data, out, FALSE)])

\* The rest of cmd_type_set: the INSERT ... ON CONFLICT DO UPDATE and the
\* commit.
cmd_type_set_write(p) ==
    /\ calls[p].pc = "write"
    /\ CommitCall([Store EXCEPT !.types = UpsertType(types, calls[p].req)],
                  [op |-> "type_set", outcome |-> "ok", id |-> NoItem,
                   req |-> calls[p].req],
                  [calls EXCEPT ![p] = Finished(NoItem, calls[p].req, "ok", TRUE)])

TypeSetInputsRace ==
    [name : TypeNames, parent_type : TypeNames \cup {None},
     abstract : {FALSE}, fields_schema : {NoFields}]

NextTypeRace ==
    \/ \E data \in TypeSetInputsRace : Tick /\ cmd_type_set(data)
    \/ \E p \in Procs, data \in TypeSetInputsRace : Tick /\ cmd_type_set_read(p, data)
    \/ \E p \in Procs : cmd_type_set_write(p) /\ UNCHANGED steps

SpecTypeRace == InitRace /\ [][NextTypeRace]_vars

\* C30: parent_type stays acyclic when the steps of two type_set commands
\* interleave: 'set the parent of A to B' and 'set the parent of B to A',
\* each checked before either is written, do not both succeed.
C30_RaceKeepsAcyclic ==
    \A n \in DOMAIN types : ~OnTypeCycle(types, n)

====
